---- MODULE Spec2Model ----
(***************************************************************************)
(* Open-addressing hash map with quadratic probing and tombstones          *)
(* (src/hash_map_oa.py, class HashMap).                                    *)
(*                                                                         *)
(* The map object is the record                                            *)
(*   [_buckets, _capacity, _size, _hash_function, hung, trace]             *)
(* _buckets is the DynamicArray, a function 0 .. _capacity-1 -> slot; a    *)
(* slot is None or a HashEntry [key, value, is_tombstone].  hung is TRUE   *)
(* when a probe loop of the method never exits.  trace is the sequence of  *)
(* internal events (resizes, probe starts) of the running public call.     *)
(***************************************************************************)
EXTENDS Integers, Sequences, FiniteSets, TLC

(* ------------------------------ bounds -------------------------------- *)

\* keys are strings
Keys == {"a", "b"}
\* values stored: 1 .. MaxValue
MaxValue == 2
Values == 1 .. MaxValue
\* hash functions map a key to 0 .. MaxHash
MaxHash == 1
\* capacities requested from the constructor: 1 .. MaxInitCapacity
MaxInitCapacity == 4
\* arguments of resize_table: 0 .. MaxResize
MaxResize == 5
\* calls are made only while the resulting capacity stays <= MaxCapacity
MaxCapacity == 7
\* public calls made on one map after its construction
MaxCalls == 7

HashFunctions == [Keys -> 0 .. MaxHash]

(* ------------------------------ values -------------------------------- *)

\* Python's None: an unused slot of the array, and the "absent" result
None == [none |-> TRUE]

\* a returned value v
Some(v) == [some |-> v]

\* the call never returns (its probe loop revisits the same slots for ever)
Hang == [hang |-> TRUE]

HashEntry(key, value) == [key |-> key, value |-> value, is_tombstone |-> FALSE]

\* DynamicArray() followed by capacity appends of None
EmptyBuckets(capacity) == [i \in 0 .. capacity - 1 |-> None]

(* ---------------------------- prime sizing ---------------------------- *)

RECURSIVE IsPrimeLoop(_, _)
\* the while loop of _is_prime: trial division by odd factors
IsPrimeLoop(capacity, factor) ==
    IF factor * factor <= capacity
    THEN IF capacity % factor = 0
         THEN FALSE
         ELSE IsPrimeLoop(capacity, factor + 2)
    ELSE TRUE

\* _is_prime with the test for even numbers left out
IsPrimeNoEvenTest(capacity) ==
    IF capacity = 2 \/ capacity = 3 THEN TRUE
    ELSE IF capacity = 1 THEN FALSE
    ELSE IsPrimeLoop(capacity, 3)

_is_prime(capacity) ==
    IF capacity = 2 \/ capacity = 3 THEN TRUE
    ELSE IF capacity = 1 \/ capacity % 2 = 0 THEN FALSE
    ELSE IsPrimeLoop(capacity, 3)

RECURSIVE NextPrimeLoop(_)
\* the while loop of _next_prime
NextPrimeLoop(capacity) ==
    IF ~ _is_prime(capacity) THEN NextPrimeLoop(capacity + 2) ELSE capacity

_next_prime(capacity) ==
    NextPrimeLoop(IF capacity % 2 = 0 THEN capacity + 1 ELSE capacity)

(* ------------------------------ the map ------------------------------- *)

\* __init__(capacity, function)
NewHashMap(capacity, function) ==
    [_buckets       |-> EmptyBuckets(_next_prime(capacity)),
     _capacity      |-> _next_prime(capacity),
     _hash_function |-> function,
     _size          |-> 0,
     hung           |-> FALSE,
     trace          |-> << >>]

get_size(self) == self._size

get_capacity(self) == self._capacity

_hash(self, key) == self._hash_function[key] % self._capacity

\* table_load: the quotient _size / _capacity, kept as the pair
\* <<numerator, denominator>>
table_load(self) == << self._size, self._capacity >>

\* the threshold 1 in place of 0.5
AtLeastWhole(load) == load[1] >= load[2]

\* load >= 0.5 for a quotient <<n, d>> with d > 0
AtLeastHalf(load) == 2 * load[1] >= load[2]

\* empty_buckets that counts the slots never used (None)
EmptyBucketsCountsNone(self) ==
    Cardinality({i \in 0 .. self._capacity - 1 : self._buckets[i] = None})

empty_buckets(self) == self._capacity - self._size

\* target_bucket += (probe + 1)**2 - probe**2; target_bucket %= capacity
NextBucket(self, target_bucket, probe) ==
    (target_bucket + ((probe + 1) * (probe + 1) - probe * probe)) % self._capacity

\* The cursor after i steps is (base + i*i) % capacity, which has period
\* capacity in i, and the loops of get, contains_key and remove change
\* nothing while they continue: a loop that has not exited after capacity
\* probes never exits.
Exhausted(self, probe) == probe >= self._capacity

Log(self, event) == [self EXCEPT !.trace = Append(@, event)]

ProbeEvent(self) ==
    [ev |-> "probe", size |-> self._size, capacity |-> self._capacity]

\* resize_table(new_capacity) passed its guard, on the map self
ResizeEvent(self, new_capacity) ==
    [ev |-> "resize", size |-> self._size, capacity |-> self._capacity,
     arg |-> new_capacity]

\* the set of live (key, value) pairs in the array
LivePairs(self) ==
    {<< self._buckets[i].key, self._buckets[i].value >> :
        i \in {j \in 0 .. self._capacity - 1 :
                  self._buckets[j] # None /\ ~ self._buckets[j].is_tombstone}}

\* resize_table returned: the map before it and after it
ResizedEvent(before, after) ==
    [ev |-> "resized",
     size_before |-> before._size, size |-> after._size,
     capacity_before |-> before._capacity, capacity |-> after._capacity,
     pairs_before |-> LivePairs(before), pairs |-> LivePairs(after)]

\* the indices of the slots that hold a live entry
LiveSlots(self) ==
    {i \in 0 .. self._capacity - 1 :
        self._buckets[i] # None /\ ~ self._buckets[i].is_tombstone}

\* the indices of the slots that hold a tombstone
TombstoneSlots(self) ==
    {i \in 0 .. self._capacity - 1 :
        self._buckets[i] # None /\ self._buckets[i].is_tombstone}

RECURSIVE PutProbe(_, _, _, _, _)
RECURSIVE put(_, _, _)
RECURSIVE resize_table(_, _)
RECURSIVE Migrate(_, _, _, _)

RECURSIVE PutProbeKeepsValue(_, _, _, _, _)
\* PutProbe that leaves the value of a key it finds as it is
PutProbeKeepsValue(self, key, value, target_bucket, probe) ==
    LET curr == self._buckets[target_bucket] IN
    IF curr = None
    THEN [self EXCEPT !._buckets[target_bucket] = HashEntry(key, value),
                      !._size = @ + 1]
    ELSE IF curr.is_tombstone
    THEN [self EXCEPT !._buckets[target_bucket] = HashEntry(key, value),
                      !._size = @ + 1]
    ELSE IF curr.key = key
    THEN self
    ELSE IF Exhausted(self, probe + 1)
    THEN [self EXCEPT !.hung = TRUE]
    ELSE PutProbeKeepsValue(self, key, value,
                            NextBucket(self, target_bucket, probe), probe + 1)

\* the while loop of put and the insertion after it
PutProbe(self, key, value, target_bucket, probe) ==
    LET curr == self._buckets[target_bucket] IN
    IF curr = None
    THEN [self EXCEPT !._buckets[target_bucket] = HashEntry(key, value),
                      !._size = @ + 1]
    ELSE IF curr.is_tombstone
    THEN [self EXCEPT !._buckets[target_bucket] = HashEntry(key, value),
                      !._size = @ + 1]
    ELSE IF curr.key = key
    THEN [self EXCEPT !._buckets[target_bucket].value = value]
    ELSE IF Exhausted(self, probe + 1)
    THEN [self EXCEPT !.hung = TRUE]
    ELSE PutProbe(self, key, value,
                  NextBucket(self, target_bucket, probe), probe + 1)

\* put without the load check and the resize
PutWithoutResize(self, key, value) ==
    PutProbe(Log(self, ProbeEvent(self)), key, value, _hash(self, key), 0)

put(self, key, value) ==
    LET resized == IF AtLeastHalf(table_load(self))
                   THEN resize_table(self, self._capacity * 2)
                   ELSE self
        started == Log(resized, ProbeEvent(resized))
    IN  IF resized.hung
        THEN resized
        ELSE PutProbe(started, key, value, _hash(started, key), 0)

\* the for loop of resize_table over the old array
Migrate(self, old_map, old_capacity, index) ==
    IF index >= old_capacity \/ self.hung
    THEN self
    ELSE LET curr == old_map[index] IN
         IF curr # None /\ ~ curr.is_tombstone
         THEN Migrate(put(self, curr.key, curr.value),
                      old_map, old_capacity, index + 1)
         ELSE Migrate(self, old_map, old_capacity, index + 1)

\* the capacity resize_table sets for an accepted new_capacity
ResizeCapacity(new_capacity) ==
    IF ~ _is_prime(new_capacity)
    THEN _next_prime(new_capacity)
    ELSE new_capacity

\* resize_table without the guard new_capacity < size
ResizeTableUnguarded(self, new_capacity) ==
    LET logged == Log(self, ResizeEvent(self, new_capacity))
        fresh  == [logged EXCEPT
                      !._capacity = ResizeCapacity(new_capacity),
                      !._buckets  = EmptyBuckets(ResizeCapacity(new_capacity)),
                      !._size     = 0]
        moved  == Migrate(fresh, self._buckets, self._capacity, 0)
    IN  Log(moved, ResizedEvent(self, moved))

resize_table(self, new_capacity) ==
    IF new_capacity < self._size
    THEN self
    ELSE LET logged == Log(self, ResizeEvent(self, new_capacity))
             fresh  == [logged EXCEPT
                           !._capacity = ResizeCapacity(new_capacity),
                           !._buckets  = EmptyBuckets(ResizeCapacity(new_capacity)),
                           !._size     = 0]
             moved  == Migrate(fresh, self._buckets, self._capacity, 0)
         IN  Log(moved, ResizedEvent(self, moved))

RECURSIVE GetProbe(_, _, _, _)
\* the while loop of get
GetProbe(self, key, target_bucket, probe) ==
    LET curr == self._buckets[target_bucket] IN
    IF curr = None
    THEN None
    ELSE IF curr.key = key /\ ~ curr.is_tombstone
    THEN Some(curr.value)
    ELSE IF Exhausted(self, probe + 1)
    THEN Hang
    ELSE GetProbe(self, key, NextBucket(self, target_bucket, probe), probe + 1)

get(self, key) ==
    IF self._size = 0
    THEN None
    ELSE GetProbe(self, key, _hash(self, key), 0)

RECURSIVE ContainsProbe(_, _, _, _)
\* the while loop of contains_key
ContainsProbe(self, key, target_bucket, probe) ==
    LET curr == self._buckets[target_bucket] IN
    IF curr = None
    THEN Some(FALSE)
    ELSE IF curr.key = key /\ ~ curr.is_tombstone
    THEN Some(TRUE)
    ELSE IF Exhausted(self, probe + 1)
    THEN Hang
    ELSE ContainsProbe(self, key,
                       NextBucket(self, target_bucket, probe), probe + 1)

contains_key(self, key) ==
    IF self._size = 0
    THEN Some(FALSE)
    ELSE ContainsProbe(self, key, _hash(self, key), 0)

RECURSIVE RemoveProbeEmptiesSlot(_, _, _, _)
\* the loop of remove, storing None where it should set is_tombstone
RemoveProbeEmptiesSlot(self, key, target_bucket, probe) ==
    LET curr == self._buckets[target_bucket] IN
    IF curr = None
    THEN self
    ELSE IF curr.key = key /\ ~ curr.is_tombstone
    THEN [self EXCEPT !._buckets[target_bucket] = None,
                      !._size = @ - 1]
    ELSE IF Exhausted(self, probe + 1)
    THEN [self EXCEPT !.hung = TRUE]
    ELSE RemoveProbeEmptiesSlot(self, key,
                                NextBucket(self, target_bucket, probe), probe + 1)

RECURSIVE RemoveProbeKeepsSize(_, _, _, _)
\* the loop of remove without self._size -= 1
RemoveProbeKeepsSize(self, key, target_bucket, probe) ==
    LET curr == self._buckets[target_bucket] IN
    IF curr = None
    THEN self
    ELSE IF curr.key = key /\ ~ curr.is_tombstone
    THEN [self EXCEPT !._buckets[target_bucket].is_tombstone = TRUE]
    ELSE IF Exhausted(self, probe + 1)
    THEN [self EXCEPT !.hung = TRUE]
    ELSE RemoveProbeKeepsSize(self, key,
                              NextBucket(self, target_bucket, probe), probe + 1)

RECURSIVE RemoveProbe(_, _, _, _)
\* the while loop of remove
RemoveProbe(self, key, target_bucket, probe) ==
    LET curr == self._buckets[target_bucket] IN
    IF curr = None
    THEN self
    ELSE IF curr.key = key /\ ~ curr.is_tombstone
    THEN [self EXCEPT !._buckets[target_bucket].is_tombstone = TRUE,
                      !._size = @ - 1]
    ELSE IF Exhausted(self, probe + 1)
    THEN [self EXCEPT !.hung = TRUE]
    ELSE RemoveProbe(self, key,
                     NextBucket(self, target_bucket, probe), probe + 1)

remove(self, key) == RemoveProbe(self, key, _hash(self, key), 0)

RECURSIVE KeysAndValuesWithTombstones(_, _)
\* the loop of get_keys_and_values without the test of is_tombstone
KeysAndValuesWithTombstones(self, index) ==
    IF index >= self._capacity
    THEN << >>
    ELSE LET curr == self._buckets[index] IN
         IF curr # None
         THEN << << curr.key, curr.value >> >>
                  \o KeysAndValuesWithTombstones(self, index + 1)
         ELSE KeysAndValuesWithTombstones(self, index + 1)

RECURSIVE KeysAndValuesFrom(_, _)
KeysAndValuesFrom(self, index) ==
    IF index >= self._capacity
    THEN << >>
    ELSE LET curr == self._buckets[index] IN
         IF curr # None /\ ~ curr.is_tombstone
         THEN << << curr.key, curr.value >> >> \o KeysAndValuesFrom(self, index + 1)
         ELSE KeysAndValuesFrom(self, index + 1)

get_keys_and_values(self) == KeysAndValuesFrom(self, 0)

\* clear that resets the size and keeps the array
ClearSizeOnly(self) == [self EXCEPT !._size = 0]

clear(self) ==
    [self EXCEPT !._buckets = EmptyBuckets(self._capacity), !._size = 0]

RECURSIVE CursorAt(_, _, _, _)
\* target_bucket after the probe loop advanced it until probe = n
CursorAt(self, target_bucket, probe, n) ==
    IF probe = n
    THEN target_bucket
    ELSE CursorAt(self, NextBucket(self, target_bucket, probe), probe + 1, n)

\* the slot the probe loops visit for key at probe n
ProbeSlot(self, key, n) == CursorAt(self, _hash(self, key), 0, n)

\* __next__ raised StopIteration
StopIteration == [stop |-> TRUE]

RECURSIVE __next__(_, _)
\* __next__ with self._index = _index: the entry returned and the _index
\* left, or StopIteration.  _index is set by __iter__ and read by __next__
\* alone, so it is kept with the iteration and not in the map record.
__next__(self, _index) ==
    IF _index < Cardinality(DOMAIN self._buckets)
    THEN LET val == self._buckets[_index] IN
         IF val # None /\ ~ val.is_tombstone
         THEN [val |-> val, _index |-> _index + 1]
         ELSE __next__(self, _index + 1)
    ELSE StopIteration

RECURSIVE IterateFrom(_, _)
\* the entries a loop over the iterator gets until StopIteration
IterateFrom(self, _index) ==
    LET got == __next__(self, _index) IN
    IF got = StopIteration
    THEN << >>
    ELSE << got.val >> \o IterateFrom(self, got._index)

\* __iter__ sets _index to 0
__iter__(self) == IterateFrom(self, 0)

(* ------------- the separate-chaining map (hash_map_sc.py) ------------- *)

\* The chaining map is the record [_buckets, _capacity, _size,
\* _hash_function]; _buckets[i] is a LinkedList, the sequence of its nodes
\* [key, value] from the head on.  _is_prime and _next_prime are the same
\* code in both files.

\* LinkedList.contains(key): the position of the node with the key, or 0
sll_contains(list, key) ==
    IF \E i \in 1 .. Len(list) : list[i].key = key
    THEN CHOOSE i \in 1 .. Len(list) :
             list[i].key = key /\ \A j \in 1 .. i - 1 : list[j].key # key
    ELSE 0

\* LinkedList.insert(key, value): a new node at the head
sll_insert(list, key, value) == << [key |-> key, value |-> value] >> \o list

\* LinkedList.remove(key): the list without the first node with the key
sll_remove(list, key) ==
    LET at == sll_contains(list, key) IN
    IF at = 0
    THEN list
    ELSE SubSeq(list, 1, at - 1) \o SubSeq(list, at + 1, Len(list))

\* DynamicArray() followed by capacity appends of LinkedList()
sc_EmptyBuckets(capacity) == [i \in 0 .. capacity - 1 |-> << >>]

sc_init(capacity, function) ==
    [_buckets       |-> sc_EmptyBuckets(_next_prime(capacity)),
     _capacity      |-> _next_prime(capacity),
     _hash_function |-> function,
     _size          |-> 0]

sc_get_size(self) == self._size

sc_hash(self, key) == self._hash_function[key] % self._capacity

\* table_load of the chaining map, as the pair <<numerator, denominator>>
sc_table_load(self) == << self._size, self._capacity >>

RECURSIVE sc_GrowCapacity(_, _)
\* while self.table_load() > 1: self._capacity = _next_prime(_capacity * 2)
sc_GrowCapacity(size, capacity) ==
    IF size > capacity
    THEN sc_GrowCapacity(size, _next_prime(capacity * 2))
    ELSE capacity

RECURSIVE sc_put(_, _, _)
RECURSIVE sc_resize_table(_, _)
RECURSIVE sc_MigrateList(_, _, _)
RECURSIVE sc_Migrate(_, _, _, _)

sc_put(self, key, value) ==
    LET resized == IF sc_table_load(self)[1] >= sc_table_load(self)[2]
                   THEN sc_resize_table(self, self._capacity * 2)
                   ELSE self
        target_bucket == sc_hash(resized, key)
        target_node == sll_contains(resized._buckets[target_bucket], key)
    IN  IF target_node # 0
        THEN [resized EXCEPT
                 !._buckets[target_bucket][target_node].value = value]
        ELSE [resized EXCEPT
                 !._buckets[target_bucket] = sll_insert(@, key, value),
                 !._size = @ + 1]

\* for node in old_map[index]: self.put(node.key, node.value)
sc_MigrateList(self, list, at) ==
    IF at > Len(list)
    THEN self
    ELSE sc_MigrateList(sc_put(self, list[at].key, list[at].value), list, at + 1)

\* for index in range(old_capacity)
sc_Migrate(self, old_map, old_capacity, index) ==
    IF index >= old_capacity
    THEN self
    ELSE sc_Migrate(sc_MigrateList(self, old_map[index], 1),
                    old_map, old_capacity, index + 1)

sc_resize_table(self, new_capacity) ==
    IF new_capacity < 1
    THEN self
    ELSE LET capacity == sc_GrowCapacity(self._size, ResizeCapacity(new_capacity))
             fresh == [self EXCEPT !._capacity = capacity,
                                   !._buckets  = sc_EmptyBuckets(capacity),
                                   !._size     = 0]
         IN  sc_Migrate(fresh, self._buckets, self._capacity, 0)

sc_get(self, key) ==
    LET list == self._buckets[sc_hash(self, key)] IN
    IF self._size = 0
    THEN None
    ELSE IF sll_contains(list, key) # 0
    THEN Some(list[sll_contains(list, key)].value)
    ELSE None

sc_contains_key(self, key) ==
    IF self._size = 0
    THEN Some(FALSE)
    ELSE IF sll_contains(self._buckets[sc_hash(self, key)], key) # 0
    THEN Some(TRUE)
    ELSE Some(FALSE)

sc_remove(self, key) ==
    LET target_bucket == sc_hash(self, key) IN
    IF sll_contains(self._buckets[target_bucket], key) # 0
    THEN [self EXCEPT !._buckets[target_bucket] = sll_remove(@, key),
                      !._size = @ - 1]
    ELSE self

(* --------------------------- state machine ---------------------------- *)

VARIABLES
    map,    \* the HashMap object
    op,     \* the last public call: name, arguments, result, and the size,
            \* capacity and get(key) of the map it was made on
    calls,  \* the number of public calls made
    live,   \* the keys put and not removed or cleared since (by the calls made)
    sc      \* a chaining map built with the same arguments; PutBoth and
            \* RemoveBoth make each call on both maps

vars == << map, op, calls, live, sc >>

\* a public call starts with an empty event trace
Enter(self) == [self EXCEPT !.trace = << >>]

\* a call can be made: the previous one returned
Ready ==
    /\ ~ map.hung
    /\ calls < MaxCalls

Init ==
    \E capacity \in 1 .. MaxInitCapacity, function \in HashFunctions :
        /\ map = NewHashMap(capacity, function)
        /\ op = [name |-> "init", n |-> capacity]
        /\ calls = 0
        /\ live = {}
        /\ sc = sc_init(capacity, function)

Put(key, value) ==
    LET after == put(Enter(map), key, value) IN
    /\ Ready
    /\ after._capacity <= MaxCapacity
    /\ map' = after
    /\ op' = [name |-> "put", key |-> key, value |-> value,
              size0 |-> map._size, capacity0 |-> map._capacity,
              got0 |-> get(map, key)]
    /\ calls' = calls + 1
    /\ live' = live \cup {key}
    /\ sc' = sc

Remove(key) ==
    /\ Ready
    /\ map' = remove(Enter(map), key)
    /\ op' = [name |-> "remove", key |-> key,
              size0 |-> map._size, capacity0 |-> map._capacity,
              got0 |-> get(map, key)]
    /\ calls' = calls + 1
    /\ live' = live \ {key}
    /\ sc' = sc

ResizeTable(new_capacity) ==
    LET after == resize_table(Enter(map), new_capacity) IN
    /\ Ready
    /\ after._capacity <= MaxCapacity
    /\ map' = after
    /\ op' = [name |-> "resize_table", n |-> new_capacity,
              size0 |-> map._size, capacity0 |-> map._capacity]
    /\ calls' = calls + 1
    /\ live' = live
    /\ sc' = sc

Clear ==
    /\ Ready
    /\ map' = clear(Enter(map))
    /\ op' = [name |-> "clear",
              size0 |-> map._size, capacity0 |-> map._capacity,
              tombstones0 |-> Cardinality(TombstoneSlots(map))]
    /\ calls' = calls + 1
    /\ live' = {}
    /\ sc' = sc

Get(key) ==
    /\ Ready
    /\ map' = [Enter(map) EXCEPT !.hung = (get(map, key) = Hang)]
    /\ op' = [name |-> "get", key |-> key, ret |-> get(map, key),
              size0 |-> map._size, capacity0 |-> map._capacity]
    /\ calls' = calls + 1
    /\ live' = live
    /\ sc' = sc

ContainsKey(key) ==
    /\ Ready
    /\ map' = [Enter(map) EXCEPT !.hung = (contains_key(map, key) = Hang)]
    /\ op' = [name |-> "contains_key", key |-> key,
              ret |-> contains_key(map, key),
              size0 |-> map._size, capacity0 |-> map._capacity]
    /\ calls' = calls + 1
    /\ live' = live
    /\ sc' = sc

\* one uninterrupted loop over the map: __iter__, then __next__ until
\* StopIteration
Iterate ==
    /\ Ready
    /\ map' = Enter(map)
    /\ op' = [name |-> "iterate", ret |-> __iter__(map),
              size0 |-> map._size, capacity0 |-> map._capacity]
    /\ calls' = calls + 1
    /\ live' = live
    /\ sc' = sc

Next ==
    \/ \E key \in Keys, value \in Values : Put(key, value)
    \/ \E key \in Keys : Remove(key)
    \/ \E new_capacity \in 0 .. MaxResize : ResizeTable(new_capacity)
    \/ Clear
    \/ \E key \in Keys : Get(key)
    \/ \E key \in Keys : ContainsKey(key)
    \/ Iterate

Spec == Init /\ [][Next]_vars

\* put(key, value) on the open-addressing map and on the chaining map
PutBoth(key, value) ==
    LET after == put(Enter(map), key, value) IN
    /\ Ready
    /\ after._capacity <= MaxCapacity
    /\ map' = after
    /\ op' = [name |-> "put", key |-> key, value |-> value,
              size0 |-> map._size, capacity0 |-> map._capacity,
              got0 |-> get(map, key)]
    /\ calls' = calls + 1
    /\ live' = live \cup {key}
    /\ sc' = sc_put(sc, key, value)

\* remove(key) on the open-addressing map and on the chaining map
RemoveBoth(key) ==
    LET after == remove(Enter(map), key) IN
    /\ Ready
    /\ map' = after
    /\ op' = [name |-> "remove", key |-> key,
              size0 |-> map._size, capacity0 |-> map._capacity,
              got0 |-> get(map, key)]
    /\ calls' = calls + 1
    /\ live' = live \ {key}
    /\ sc' = sc_remove(sc, key)

NextPutRemove ==
    \/ \E key \in Keys, value \in Values : PutBoth(key, value)
    \/ \E key \in Keys : RemoveBoth(key)

SpecPutRemove == Init /\ [][NextPutRemove]_vars

(* ------------------------------ properties ---------------------------- *)

\* n is a prime number
IsPrime(n) == n >= 2 /\ \A d \in 2 .. n - 1 : n % d # 0

\* the smallest prime p >= n (there is one below 2n + 2)
SmallestPrimeAtLeast(n) ==
    CHOOSE p \in n .. 2 * n + 2 :
        IsPrime(p) /\ \A q \in n .. p - 1 : ~ IsPrime(q)

HasTombstone(self) ==
    \E i \in 0 .. self._capacity - 1 :
        self._buckets[i] # None /\ self._buckets[i].is_tombstone

\* what the public queries show of a map
Observable(self) ==
    [returned |-> ~ self.hung,
     size     |-> get_size(self),
     capacity |-> get_capacity(self),
     get      |-> [k \in Keys |-> get(self, k)],
     contains |-> [k \in Keys |-> contains_key(self, k)],
     pairs    |-> get_keys_and_values(self)]

Returned(result) == result # None /\ result # Hang

\* C1: after any sequence of put, remove, resize_table and clear calls,
\* get_size() is the number of distinct keys put and not removed or cleared
\* since.
C1_SizeIsLiveKeyCount ==
    ~ map.hung => get_size(map) = Cardinality(live)

\* C2: put(K, v) immediately followed by get(K) returns v, and
\* contains_key(K) returns true.
C2_PutThenGet ==
    op.name = "put" =>
        /\ ~ map.hung
        /\ get(map, op.key) = Some(op.value)
        /\ contains_key(map, op.key) = Some(TRUE)

\* a put into a table that holds a tombstone and another live entry
C2_Witness ==
    /\ op.name = "put"
    /\ HasTombstone(map)
    /\ map._size >= 2
    /\ get(map, op.key) = Some(op.value)

\* C3: for a live key K, after remove(K) get(K) returns None,
\* contains_key(K) is false and get_size() is one less than before.
C3_RemoveLiveKey ==
    (op.name = "remove" /\ Returned(op.got0)) =>
        /\ ~ map.hung
        /\ get(map, op.key) = None
        /\ contains_key(map, op.key) = Some(FALSE)
        /\ get_size(map) = op.size0 - 1

\* C4: for a live key K, put(K, v2) leaves get_size() unchanged and get(K)
\* then returns v2.
C4_PutLiveKey ==
    (op.name = "put" /\ Returned(op.got0)) =>
        /\ get_size(map) = op.size0
        /\ get(map, op.key) = Some(op.value)

\* C5: the observable state after remove(K); remove(K) is the observable
\* state after remove(K).
C5_RemoveTwice ==
    (op.name = "remove" /\ ~ map.hung) =>
        Observable(remove(map, op.key)) = Observable(map)

\* C6: every resize, automatic or manual, leaves the set of (key, value)
\* pairs and get_size() as they were.
C6_ResizeKeepsPairs ==
    \A i \in 1 .. Len(map.trace) :
        map.trace[i].ev = "resized" =>
            /\ map.trace[i].pairs = map.trace[i].pairs_before
            /\ map.trace[i].size = map.trace[i].size_before

\* C7: get(K), contains_key(K) and remove(K) return after visiting at most
\* capacity slots, for every key K, live or absent.
C7_ProbesTerminate ==
    op.name \in {"get", "contains_key", "remove"} => ~ map.hung

\* C8: get_capacity() is a prime >= 2, and no call lowers it but a
\* resize_table(n) with n below the capacity and n >= size.
C8_CapacityPrime ==
    /\ IsPrime(get_capacity(map))
    /\ (op.name # "init" /\ get_capacity(map) < op.capacity0) =>
           /\ op.name = "resize_table"
           /\ op.n < op.capacity0
           /\ op.n >= op.size0

\* a resize_table that lowered the capacity of a map holding entries
C8_Witness ==
    /\ op.name = "resize_table"
    /\ get_capacity(map) < op.capacity0
    /\ get_size(map) >= 1

\* C9: a put made at load >= 0.5 first resizes, once, to the smallest prime
\* >= twice the capacity, and probes after that resize returned; a put made
\* at load < 0.5 does not resize; every insertion probe starts at load < 0.5.
C9_ResizeBeforeProbe ==
    LET t == map.trace
        n == Len(t)
    IN  /\ \A i \in 1 .. n :
               t[i].ev = "probe" => 2 * t[i].size < t[i].capacity
        /\ (op.name = "put" /\ 2 * op.size0 >= op.capacity0) =>
               /\ n >= 3
               /\ t[1].ev = "resize"
               /\ t[1].arg = 2 * op.capacity0
               /\ \A i \in 2 .. n : t[i].ev # "resize"
               /\ t[n - 1].ev = "resized"
               /\ t[n - 1].capacity = SmallestPrimeAtLeast(2 * op.capacity0)
               /\ t[n].ev = "probe"
               /\ t[n].capacity = SmallestPrimeAtLeast(2 * op.capacity0)
        /\ (op.name = "put" /\ 2 * op.size0 < op.capacity0) =>
               /\ t = << [ev |-> "probe", size |-> op.size0,
                          capacity |-> op.capacity0] >>
               /\ get_capacity(map) = op.capacity0

\* a put that resized a table holding two entries
C9_Witness ==
    /\ op.name = "put"
    /\ 2 * op.size0 >= op.capacity0
    /\ op.size0 >= 2
    /\ get_capacity(map) > op.capacity0

\* C10: resize_table(n) with n < get_size() changes nothing: capacity,
\* size, every slot, and so every get and contains_key result stay.
C10_ShrinkBelowSizeIsNoOp ==
    [][(op'.name = "resize_table" /\ op'.n < get_size(map)) =>
          /\ ~ map'.hung
          /\ map'._buckets = map._buckets
          /\ map'._capacity = map._capacity
          /\ map'._size = map._size
          /\ \A k \in Keys :
                /\ get(map', k) = get(map, k)
                /\ contains_key(map', k) = contains_key(map, k)]_vars

\* a refused resize_table on a table that holds a tombstone
C10_Witness ==
    /\ op.name = "resize_table"
    /\ op.n < op.size0
    /\ HasTombstone(map)

\* C11: construction with a requested capacity c >= 1 gives the smallest
\* prime >= c as capacity, size 0 and every slot empty.
C11_ConstructedCapacity ==
    op.name = "init" =>
        /\ get_capacity(map) = SmallestPrimeAtLeast(op.n)
        /\ get_size(map) = 0
        /\ \A i \in 0 .. map._capacity - 1 : map._buckets[i] = None

\* C12: clear() keeps the capacity, sets the size to 0 and empties every
\* slot, tombstones included: empty_buckets() is then the capacity and every
\* get and contains_key reports absent.
C12_ClearEmptiesTable ==
    op.name = "clear" =>
        /\ get_capacity(map) = op.capacity0
        /\ get_size(map) = 0
        /\ \A i \in 0 .. map._capacity - 1 : map._buckets[i] = None
        /\ empty_buckets(map) = get_capacity(map)
        /\ \A k \in Keys :
              /\ get(map, k) = None
              /\ contains_key(map, k) = Some(FALSE)

\* a clear of a table that held a live entry and a tombstone
C12_Witness ==
    /\ op.name = "clear"
    /\ op.size0 >= 1
    /\ op.tombstones0 >= 1
    /\ empty_buckets(map) = get_capacity(map)

\* C13 as stated: empty_buckets() is the number of slots that are neither
\* live nor tombstones.
C13_TombstonesNotEmpty ==
    empty_buckets(map) =
        Cardinality((0 .. map._capacity - 1)
                        \ (LiveSlots(map) \cup TombstoneSlots(map)))

\* C13 amended: empty_buckets() is capacity - size, the number of slots that
\* hold no live entry; a tombstoned slot counts as empty.
C13_EmptyBucketsCountsTombstones ==
    /\ empty_buckets(map) = get_capacity(map) - get_size(map)
    /\ empty_buckets(map) =
           Cardinality((0 .. map._capacity - 1) \ LiveSlots(map))

\* put(K, v) then remove(K) on a new map: one tombstone, no live entry
C13_Witness ==
    /\ op.name = "remove"
    /\ calls = 2
    /\ get_size(map) = 0
    /\ Cardinality(TombstoneSlots(map)) = 1
    /\ empty_buckets(map) = get_capacity(map)

\* the number of live slots below slot i
LiveBelow(self, i) == Cardinality({j \in LiveSlots(self) : j < i})

\* C14: get_keys_and_values() holds one (key, value) pair per live slot, in
\* increasing slot order, and nothing for empty or tombstoned slots; one
\* uninterrupted iteration yields the entries of the same slots in the same
\* order.
C14_PairsInSlotOrder ==
    LET pairs == get_keys_and_values(map) IN
    /\ Len(pairs) = Cardinality(LiveSlots(map))
    /\ \A i \in LiveSlots(map) :
          pairs[LiveBelow(map, i) + 1]
              = << map._buckets[i].key, map._buckets[i].value >>
    /\ op.name = "iterate" =>
          /\ Len(op.ret) = Cardinality(LiveSlots(map))
          /\ \A i \in LiveSlots(map) :
                op.ret[LiveBelow(map, i) + 1] = map._buckets[i]

\* an iteration over a table with two live entries after a tombstone
C14_Witness ==
    /\ op.name = "iterate"
    /\ Len(op.ret) >= 2
    /\ \E t \in TombstoneSlots(map) : \A i \in LiveSlots(map) : t < i

\* C15: the probe loop of put reaches an empty slot, a tombstone or the key
\* within capacity probes, in top-level puts and in the puts of a migration.
C15_PutProbeTerminates ==
    op.name \in {"put", "resize_table"} => ~ map.hung

\* a put that stored its key away from the key's base index
C15_Witness ==
    /\ op.name = "put"
    /\ ~ map.hung
    /\ \E i \in LiveSlots(map) :
          /\ map._buckets[i].key = op.key
          /\ i # _hash(map, op.key)

\* the resize_table calls of the last public call that passed the guard
ResizesStarted == {i \in 1 .. Len(map.trace) : map.trace[i].ev = "resize"}

\* C16: resize_table(n) with n >= size and n >= 2 starts no further resize
\* while it re-inserts, and leaves the capacity at the smallest prime >= n.
C16_ResizeDoesNotNest ==
    (op.name = "resize_table" /\ op.n >= op.size0 /\ op.n >= 2) =>
        /\ Cardinality(ResizesStarted) = 1
        /\ get_capacity(map) = SmallestPrimeAtLeast(op.n)

\* slot i is reached from the base index of its key through non-empty slots
ReachedBeforeEmpty(self, i) ==
    \E n \in 0 .. self._capacity - 1 :
        /\ ProbeSlot(self, self._buckets[i].key, n) = i
        /\ \A m \in 0 .. n - 1 :
              self._buckets[ProbeSlot(self, self._buckets[i].key, m)] # None

\* C17: for every live slot holding key K, the probe sequence from
\* hash(K) mod capacity reaches the slot before any empty slot; tombstones
\* on the way do not break the chain.
C17_ProbeChain ==
    \A i \in LiveSlots(map) : ReachedBeforeEmpty(map, i)

\* a live entry behind a tombstone on its probe path
C17_Witness ==
    \E i \in LiveSlots(map) :
        \E n \in 1 .. map._capacity - 1 :
            /\ ProbeSlot(map, map._buckets[i].key, n) = i
            /\ \A m \in 0 .. n - 1 :
                  ProbeSlot(map, map._buckets[i].key, m) # i
            /\ \E m \in 0 .. n - 1 :
                  ProbeSlot(map, map._buckets[i].key, m) \in TombstoneSlots(map)

\* C18: the size counter is the number of slots that are occupied and not
\* tombstoned.
C18_SizeIsLiveSlotCount ==
    get_size(map) = Cardinality(LiveSlots(map))

\* a remove that left a tombstone beside a live entry
C18_Witness ==
    /\ op.name = "remove"
    /\ get_size(map) = op.size0 - 1
    /\ get_size(map) >= 1
    /\ TombstoneSlots(map) # {}

\* C19: size <= capacity in every state, also where resize_table has set the
\* new capacity and not yet reset the size, and at every step of a migration.
C19_SizeAtMostCapacity ==
    /\ get_size(map) <= get_capacity(map)
    /\ \A i \in 1 .. Len(map.trace) :
          /\ map.trace[i].size <= map.trace[i].capacity
          /\ map.trace[i].ev = "resize" =>
                map.trace[i].size <= ResizeCapacity(map.trace[i].arg)

\* a resize_table(n) with n equal to the size of a map holding two entries
C19_Witness ==
    /\ op.name = "resize_table"
    /\ op.n = op.size0
    /\ op.size0 >= 2
    /\ Cardinality(ResizesStarted) >= 1

\* C20: after every step of the same sequence of put and remove calls on
\* the open-addressing map and on the chaining map, get(K), contains_key(K)
\* and get_size() agree for every key K.
C20_SameContract ==
    /\ get_size(map) = sc_get_size(sc)
    /\ \A k \in Keys :
          /\ get(map, k) = sc_get(sc, k)
          /\ contains_key(map, k) = sc_contains_key(sc, k)

====
